---- MODULE Spec2Model ----
(***************************************************************************)
(* Model of the CSV HTML cleaner (src/app.py): the text transforms, the   *)
(* cleaning pipeline, the statistics collector, the CSV loader and the    *)
(* script's load / clean / export run.                                    *)
(*                                                                         *)
(* Text values are TLA+ strings; a character is a string of length one.   *)
(***************************************************************************)
EXTENDS Integers, Sequences, FiniteSets, TLC

VARIABLES
    pc,               \* position of the script / of the modelled function
    options,          \* the cleaning options dict
    \* clean_text_comprehensive
    text,             \* the argument `text`
    cleaned_text,     \* the local `cleaned_text`
    ran,              \* history: the transform calls made (stage, input, output)
    \* the body of the cleaning loop
    original_series,  \* the column being cleaned
    cleaned_series,   \* its cleaned counterpart
    stats,            \* get_cleaning_stats' result
    \* the script
    file,             \* the uploaded bytes: what decodes them, what parses them, their table
    encoding_option,  \* sidebar: file encoding
    delimiter_option, \* sidebar: CSV delimiter
    reads,            \* history: the pd.read_csv calls made (encoding, delimiter, outcome)
    report,           \* the kinds of message shown: warning, error, exception, success
    df,               \* the loaded table
    df0,              \* history: the table as it was when the cleaning run started
    columns_to_clean, \* the multiselect's value
    add_suffix,       \* the suffix text input
    create_backup,    \* the Keep Original Columns checkbox
    loop_i,           \* the loop index i
    progress,         \* history: the values given to progress_bar.progress
    all_stats,        \* column -> statistics
    cleaned_df        \* the table of the Download Cleaned Data Only button

cleanVars == <<text, cleaned_text, ran>>
columnVars == <<original_series, cleaned_series, stats>>
loadVars == <<file, encoding_option, delimiter_option, reads>>
runVars == <<df0, columns_to_clean, add_suffix, create_backup, loop_i, progress, all_stats,
             cleaned_df>>
appVars == <<loadVars, report, df, runVars>>
vars == <<pc, options, cleanVars, columnVars, appVars>>

-----------------------------------------------------------------------------
(* Characters and character classes of Python's re module.                 *)

Ch(s, i) == IF 1 <= i /\ i <= Len(s) THEN SubSeq(s, i, i) ELSE ""

LowerLetters == {"a","b","c","d","e","f","g","h","i","j","k","l","m",
                 "n","o","p","q","r","s","t","u","v","w","x","y","z"}
UpperLetters == {"A","B","C","D","E","F","G","H","I","J","K","L","M",
                 "N","O","P","Q","R","S","T","U","V","W","X","Y","Z"}
Letters == LowerLetters \cup UpperLetters
Digits == {"0","1","2","3","4","5","6","7","8","9"}

\* \s
IsSpace(c) == c \in {" ", "\t", "\n", "\r", "\f"}
\* \w ; the empty string stands for "outside the text"
IsWord(c) == c \in Letters \cup Digits \cup {"_"}

\* re.IGNORECASE comparison of one character
LowerCh(c) ==
    CASE c = "A" -> "a" [] c = "B" -> "b" [] c = "C" -> "c" [] c = "D" -> "d"
      [] c = "E" -> "e" [] c = "F" -> "f" [] c = "G" -> "g" [] c = "H" -> "h"
      [] c = "I" -> "i" [] c = "J" -> "j" [] c = "K" -> "k" [] c = "L" -> "l"
      [] c = "M" -> "m" [] c = "N" -> "n" [] c = "O" -> "o" [] c = "P" -> "p"
      [] c = "Q" -> "q" [] c = "R" -> "r" [] c = "S" -> "s" [] c = "T" -> "t"
      [] c = "U" -> "u" [] c = "V" -> "v" [] c = "W" -> "w" [] c = "X" -> "x"
      [] c = "Y" -> "y" [] c = "Z" -> "z" [] OTHER -> c

RECURSIVE Lower(_)
Lower(s) == IF s = "" THEN "" ELSE LowerCh(Ch(s, 1)) \o Lower(SubSeq(s, 2, Len(s)))

\* the text has the literal p at index i
At(s, i, p) == i + Len(p) - 1 <= Len(s) /\ SubSeq(s, i, i + Len(p) - 1) = p
\* the same, ignoring case (p is lower case)
AtNoCase(s, i, p) == i + Len(p) - 1 <= Len(s) /\ Lower(SubSeq(s, i, i + Len(p) - 1)) = p

\* index of the first character at or after i that is not in the class, Len(s)+1 if none
RECURSIVE RunEnd(_, _, _)
RunEnd(s, i, class) ==
    IF i <= Len(s) /\ Ch(s, i) \in class THEN RunEnd(s, i + 1, class) ELSE i

\* the same for a negated class [^...]
RECURSIVE RunEndNot(_, _, _)
RunEndNot(s, i, excluded) ==
    IF i <= Len(s) /\ Ch(s, i) \notin excluded THEN RunEndNot(s, i + 1, excluded) ELSE i

\* index of the first occurrence of the literal p at or after i, 0 if none
RECURSIVE Find(_, _, _)
Find(s, i, p) ==
    IF i + Len(p) - 1 > Len(s) THEN 0
    ELSE IF At(s, i, p) THEN i ELSE Find(s, i + 1, p)

RECURSIVE FindNoCase(_, _, _)
FindNoCase(s, i, p) ==
    IF i + Len(p) - 1 > Len(s) THEN 0
    ELSE IF AtNoCase(s, i, p) THEN i ELSE FindNoCase(s, i + 1, p)

-----------------------------------------------------------------------------
(* Cell values: a text, an integer, a float (n.0) or a missing value (NaN). *)

None == [kind |-> "none"]
Missing == [kind |-> "missing"]
Text(s) == [kind |-> "text", s |-> s]
IntCell(n) == [kind |-> "int", n |-> n]
FloatCell(n) == [kind |-> "float", n |-> n]

DigitOf(d) ==
    CASE d = 0 -> "0" [] d = 1 -> "1" [] d = 2 -> "2" [] d = 3 -> "3" [] d = 4 -> "4"
      [] d = 5 -> "5" [] d = 6 -> "6" [] d = 7 -> "7" [] d = 8 -> "8" [] d = 9 -> "9"

RECURSIVE NatStr(_)
NatStr(n) == IF n < 10 THEN DigitOf(n) ELSE NatStr(n \div 10) \o DigitOf(n % 10)

\* pd.isna(x)
IsNa(v) == v.kind = "missing"
\* x == ""
IsEmptyStr(v) == v.kind = "text" /\ v.s = ""
\* the guard without its pd.isna test
IsBlankEmptyOnly(v) == IsEmptyStr(v)
\* the guard every transform and the pipeline open with: pd.isna(text) or text == ""
IsBlank(v) == IsNa(v) \/ IsEmptyStr(v)
\* str(x)
Str(v) ==
    CASE v.kind = "text" -> v.s
      [] v.kind = "int" -> NatStr(v.n)
      [] v.kind = "float" -> NatStr(v.n) \o ".0"
      [] v.kind = "missing" -> "nan"

-----------------------------------------------------------------------------
(* html.unescape, over the character references the model's texts can hold: *)
(* the regex &(#[0-9]+;?|#[xX][0-9a-fA-F]+;?|[^\t\n\f <&#;]{1,32};?) and    *)
(* _replace_charref.  The model's texts hold no hexadecimal reference.      *)

\* the entries of html.entities.html5 the model's texts can name
Html5Names == {"amp;", "amp", "lt;", "lt", "gt;", "gt", "quot;", "quot"}
Html5(name) ==
    CASE name \in {"amp;", "amp"} -> "&"
      [] name \in {"lt;", "lt"} -> "<"
      [] name \in {"gt;", "gt"} -> ">"
      [] name \in {"quot;", "quot"} -> "\""

NameStop == {"\t", "\n", "\f", " ", "<", "&", "#", ";"}
MaxNameLen == 32

DigitVal(c) ==
    CASE c = "0" -> 0 [] c = "1" -> 1 [] c = "2" -> 2 [] c = "3" -> 3 [] c = "4" -> 4
      [] c = "5" -> 5 [] c = "6" -> 6 [] c = "7" -> 7 [] c = "8" -> 8 [] c = "9" -> 9

RECURSIVE ParseNat(_, _)
ParseNat(s, acc) ==
    IF s = "" THEN acc
    ELSE ParseNat(SubSeq(s, 2, Len(s)), acc * 10 + DigitVal(Ch(s, 1)))

\* chr(num) for the code points the model's texts can reference
Chr(num) ==
    CASE num = 34 -> "\"" [] num = 38 -> "&" [] num = 39 -> "'"
      [] num = 60 -> "<" [] num = 62 -> ">" [] num = 32 -> " "
      [] OTHER -> "?"

\* _replace_charref for a named reference s (the text after the ampersand)
RECURSIVE LongestPrefix(_, _)
LongestPrefix(s, x) ==
    IF x <= 1 THEN "&" \o s
    ELSE IF SubSeq(s, 1, x) \in Html5Names
         THEN Html5(SubSeq(s, 1, x)) \o SubSeq(s, x + 1, Len(s))
         ELSE LongestPrefix(s, x - 1)

ReplaceNamed(s) == IF s \in Html5Names THEN Html5(s) ELSE LongestPrefix(s, Len(s) - 1)

RECURSIVE Unescape(_, _)
Unescape(s, i) ==
    IF i > Len(s) THEN ""
    ELSE IF Ch(s, i) # "&" THEN Ch(s, i) \o Unescape(s, i + 1)
    ELSE IF Ch(s, i + 1) = "#"
    THEN LET e == RunEnd(s, i + 2, Digits)
             f == IF Ch(s, e) = ";" THEN e + 1 ELSE e
         IN  IF e = i + 2 THEN "&" \o Unescape(s, i + 1)
             ELSE Chr(ParseNat(SubSeq(s, i + 2, e - 1), 0)) \o Unescape(s, f)
    ELSE LET r == RunEndNot(s, i + 1, NameStop)
             e == IF r - (i + 1) > MaxNameLen THEN i + 1 + MaxNameLen ELSE r
             f == IF Ch(s, e) = ";" THEN e + 1 ELSE e
         IN  IF e = i + 1 THEN "&" \o Unescape(s, i + 1)
             ELSE ReplaceNamed(SubSeq(s, i + 1, f - 1)) \o Unescape(s, f)

\* decode_html_entities
decode_html_entities(v) ==
    IF IsBlank(v) THEN "" ELSE Unescape(Str(v), 1)

-----------------------------------------------------------------------------
(* remove_html_tags                                                        *)

\* re.sub(open + '(.*?)' + close, mark + '\1' + mark, s, IGNORECASE | DOTALL)
RECURSIVE SubPair(_, _, _, _, _)
SubPair(s, i, open, close, mark) ==
    IF i > Len(s) THEN ""
    ELSE LET q == IF AtNoCase(s, i, open) THEN FindNoCase(s, i + Len(open), close) ELSE 0
         IN  IF q = 0 THEN Ch(s, i) \o SubPair(s, i + 1, open, close, mark)
             ELSE mark \o SubSeq(s, i + Len(open), q - 1) \o mark
                       \o SubPair(s, q + Len(close), open, close, mark)

\* re.sub(r'<[^>]*>', '', s)
RECURSIVE SubTags(_, _)
SubTags(s, i) ==
    IF i > Len(s) THEN ""
    ELSE LET q == IF Ch(s, i) = "<" THEN Find(s, i + 1, ">") ELSE 0
         IN  IF q = 0 THEN Ch(s, i) \o SubTags(s, i + 1) ELSE SubTags(s, q + 1)

\* the four formatting rewrites of the preserve_formatting branch, in the code's order
RewriteFormatting(s) ==
    LET t1 == SubPair(s, 1, "<strong>", "</strong>", "**")
        t2 == SubPair(t1, 1, "<b>", "</b>", "**")
        t3 == SubPair(t2, 1, "<em>", "</em>", "*")
    IN  SubPair(t3, 1, "<i>", "</i>", "*")

\* the generic removal run before the formatting rewrites
StripTextLate(s, preserve_formatting) ==
    IF preserve_formatting THEN RewriteFormatting(SubTags(s, 1)) ELSE SubTags(s, 1)

StripText(s, preserve_formatting) ==
    SubTags(IF preserve_formatting THEN RewriteFormatting(s) ELSE s, 1)

remove_html_tags(v, preserve_formatting) ==
    IF IsBlank(v) THEN "" ELSE StripText(Str(v), preserve_formatting)

-----------------------------------------------------------------------------
(* normalize_whitespace_func                                               *)

\* re.sub(r'\s+', ' ', s)
RECURSIVE SubSpaces(_, _)
SubSpaces(s, i) ==
    IF i > Len(s) THEN ""
    ELSE IF IsSpace(Ch(s, i))
         THEN " " \o SubSpaces(s, RunEnd(s, i, {" ", "\t", "\n", "\r", "\f"}))
         ELSE Ch(s, i) \o SubSpaces(s, i + 1)

\* s.strip()
RECURSIVE LStrip(_)
LStrip(s) == IF s # "" /\ IsSpace(Ch(s, 1)) THEN LStrip(SubSeq(s, 2, Len(s))) ELSE s
RECURSIVE RStrip(_)
RStrip(s) ==
    IF s # "" /\ IsSpace(Ch(s, Len(s))) THEN RStrip(SubSeq(s, 1, Len(s) - 1)) ELSE s
Strip(s) == RStrip(LStrip(s))

normalize_whitespace_func(v) ==
    IF IsBlank(v) THEN "" ELSE Strip(SubSpaces(Str(v), 1))

-----------------------------------------------------------------------------
(* remove_urls_func                                                        *)

\* the class the URL run stops at: whitespace, angle brackets, the double quote,
\* braces, bar, backslash, caret and square brackets (and the backtick, which the
\* language cannot write in a string and no text of the model holds)
UrlStop == {" ", "\t", "\n", "\r", "\f", "<", ">", "\"", "{", "}", "|", "\\", "^", "[", "]"}

\* re.sub(r'https?://[^...]*', '', s)
RECURSIVE SubUrls(_, _)
SubUrls(s, i) ==
    IF i > Len(s) THEN ""
    ELSE IF At(s, i, "https://") THEN SubUrls(s, RunEndNot(s, i + 8, UrlStop))
    ELSE IF At(s, i, "http://") THEN SubUrls(s, RunEndNot(s, i + 7, UrlStop))
    ELSE Ch(s, i) \o SubUrls(s, i + 1)

remove_urls_func(v) ==
    IF IsBlank(v) THEN "" ELSE SubUrls(Str(v), 1)

-----------------------------------------------------------------------------
(* remove_email_func:                                                      *)
(* \b[A-Za-z0-9._%+-]+@[A-Za-z0-9.-]+\.[A-Z|a-z]{2,}\b                      *)

LocalChars == Letters \cup Digits \cup {".", "_", "%", "+", "-"}
DomainChars == Letters \cup Digits \cup {".", "-"}
TldChars == Letters \cup {"|"}
MinTld == 2

\* \b between index e and e + 1
Boundary(s, e) == IsWord(Ch(s, e)) # IsWord(Ch(s, e + 1))

\* index of the last character of the match that starts at i, 0 if none: the local
\* part is the run up to the '@'; the greedy domain backtracks to the last dot that
\* a top-level segment and a word boundary follow
EmailEnd(s, i) ==
    LET a == RunEnd(s, i, LocalChars)
        d == RunEnd(s, a + 1, DomainChars)
        ends == { <<k, t>> \in ((a + 2) .. (d - 1)) \X (MinTld .. Len(s)) :
                    /\ Ch(s, k) = "."
                    /\ k + t <= Len(s)
                    /\ RunEnd(s, k + 1, TldChars) > k + t
                    /\ Boundary(s, k + t) }
        best == CHOOSE p \in ends :
                    \A o \in ends : o[1] < p[1] \/ (o[1] = p[1] /\ o[2] <= p[2])
    IN  IF ~Boundary(s, i - 1) \/ a = i \/ Ch(s, a) # "@" \/ ends = {} THEN 0
        ELSE best[1] + best[2]

RECURSIVE SubEmails(_, _)
SubEmails(s, i) ==
    IF i > Len(s) THEN ""
    ELSE LET e == EmailEnd(s, i)
         IN  IF e = 0 THEN Ch(s, i) \o SubEmails(s, i + 1) ELSE SubEmails(s, e + 1)

remove_email_func(v) ==
    IF IsBlank(v) THEN "" ELSE SubEmails(Str(v), 1)

-----------------------------------------------------------------------------
(* clean_text_comprehensive                                                *)

OptionKeys == {"decode_html", "remove_tags", "preserve_formatting",
               "normalize_whitespace", "remove_urls", "remove_email"}
AllOptions == [OptionKeys -> BOOLEAN]

\* the option that gates a stage
StageFlag(stage) ==
    CASE stage = "decode" -> "decode_html"
      [] stage = "tags" -> "remove_tags"
      [] stage = "urls" -> "remove_urls"
      [] stage = "email" -> "remove_email"
      [] stage = "space" -> "normalize_whitespace"

\* the statements with URL removal moved before tag removal
NextStageSwapped(stage) ==
    CASE stage = "decode" -> "urls"
      [] stage = "urls" -> "tags"
      [] stage = "tags" -> "email"
      [] stage = "email" -> "space"
      [] stage = "space" -> "return"

\* the statement that follows a stage's statement in the function body
NextStage(stage) ==
    CASE stage = "decode" -> "tags"
      [] stage = "tags" -> "urls"
      [] stage = "urls" -> "email"
      [] stage = "email" -> "space"
      [] stage = "space" -> "return"

\* the transform of a stage, called on a value
Transform(stage, v, preserve_formatting) ==
    CASE stage = "decode" -> decode_html_entities(v)
      [] stage = "tags" -> remove_html_tags(v, preserve_formatting)
      [] stage = "urls" -> remove_urls_func(v)
      [] stage = "email" -> remove_email_func(v)
      [] stage = "space" -> normalize_whitespace_func(v)

\* the call a stage makes on the current text
StageCall(stage, s, o) == Transform(stage, Text(s), o["preserve_formatting"])

\* the body from the first stage on, as one evaluation
RECURSIVE RunFrom(_, _, _)
RunFrom(stage, s, o) ==
    IF stage = "return" THEN s
    ELSE RunFrom(NextStage(stage), IF o[StageFlag(stage)] THEN StageCall(stage, s, o) ELSE s, o)

clean_text_comprehensive(v, o) ==
    IF IsBlank(v) THEN "" ELSE RunFrom("decode", Str(v), o)

-----------------------------------------------------------------------------
(* get_cleaning_stats                                                      *)

RECURSIVE Gcd(_, _)
Gcd(a, b) == IF b = 0 THEN a ELSE Gcd(b, a % b)
Abs(a) == IF a < 0 THEN 0 - a ELSE a

\* the number n / d (d > 0) in lowest terms; the code computes it in floating point
Frac(n, d) == LET g == Gcd(Abs(n), d) IN <<n \div g, d \div g>>
Zero == Frac(0, 1)

RECURSIVE Sum(_, _)
Sum(f, k) == IF k = 0 THEN 0 ELSE f[k] + Sum(f, k - 1)

\* Series.sum() of a boolean series: the number of rows that are TRUE
Count(flags) == Cardinality({k \in DOMAIN flags : flags[k]})
\* series.isna(), series == ""
IsNaSeries(series) == [k \in DOMAIN series |-> IsNa(series[k])]
EqEmpty(series) == [k \in DOMAIN series |-> IsEmptyStr(series[k])]

\* Series.astype(str): each cell's str()
AsTypeStr(series) == [k \in DOMAIN series |-> Str(series[k])]

\* re.search(r'&[a-zA-Z]+;|&#\d+;', s) finds a match
HasEntity(s) ==
    \E i \in 1 .. Len(s) :
        /\ Ch(s, i) = "&"
        /\ \/ LET e == RunEnd(s, i + 1, Letters) IN e > i + 1 /\ Ch(s, e) = ";"
           \/ /\ Ch(s, i + 1) = "#"
              /\ LET e == RunEnd(s, i + 2, Digits) IN e > i + 2 /\ Ch(s, e) = ";"

\* the tag search run on the decoded text
HasTagDecoded(s) ==
    LET u == Unescape(s, 1)
    IN  \E k \in 1 .. Len(u) : Ch(u, k) = "<" /\ Find(u, k + 1, ">") # 0

\* re.search(r'<[^>]*>', s) finds a match
HasTag(s) == \E i \in 1 .. Len(s) : Ch(s, i) = "<" /\ Find(s, i + 1, ">") # 0

\* Series.str.contains(pattern) with each of the two patterns
ContainsEntity(strs) == [k \in DOMAIN strs |-> HasEntity(strs[k])]
ContainsTag(strs) == [k \in DOMAIN strs |-> HasTag(strs[k])]

\* Series.str.len().mean() of a series of strings
MeanLen(strs) == Frac(Sum([k \in DOMAIN strs |-> Len(strs[k])], Len(strs)), Len(strs))

Positive(q) == q[1] > 0
\* (a - b) / a * 100
Reduction(a, b) == Frac((a[1] * b[2] - b[1] * a[2]) * 100, a[1] * b[2])

get_cleaning_stats(original, cleaned) ==
    LET avg_o == MeanLen(AsTypeStr(original))
        avg_c == MeanLen(AsTypeStr(cleaned))
    IN  [ total_rows |-> Len(original),
          empty_original |-> Count(IsNaSeries(original)) + Count(EqEmpty(original)),
          empty_cleaned |-> Count(IsNaSeries(cleaned)) + Count(EqEmpty(cleaned)),
          avg_length_original |-> avg_o,
          avg_length_cleaned |-> avg_c,
          html_entities_found |-> Count(ContainsEntity(AsTypeStr(original))),
          html_tags_found |-> Count(ContainsTag(AsTypeStr(original))),
          size_reduction |-> IF Positive(avg_o) THEN Reduction(avg_o, avg_c) ELSE Zero ]

\* Series.apply(lambda x: clean_text_comprehensive(x, cleaning_options))
Apply(series, o) == [k \in DOMAIN series |-> Text(clean_text_comprehensive(series[k], o))]

-----------------------------------------------------------------------------
(* Bounded inputs.                                                         *)

MaxTokens == 2
MaxNumber == 10

\* building blocks of the texts given to the pipeline
CleanTokens == {"&amp;", "&lt;", "lt;", "<b>", "b>", " ", "http://u", "a@b.co"}

RECURSIVE TextsOf(_, _)
TextsOf(tokens, n) ==
    IF n = 0 THEN {""}
    ELSE LET shorter == TextsOf(tokens, n - 1)
         IN  shorter \cup {a \o t : a \in shorter, t \in tokens}

\* the texts the specification's own examples use
ExampleTexts == {"&amp;Hi &lt;b&gt;there&lt;/b&gt;", "no markup",
                 "<p>Hello <b>World</b></p>", "&lt;b&gt;hi&lt;/b&gt;",
                 "see https://example.com/x now", "contact a@b.com please"}

NumberCells == {IntCell(n) : n \in 0 .. MaxNumber} \cup {FloatCell(n) : n \in 0 .. MaxNumber}

CleanValues ==
    {Text(s) : s \in TextsOf(CleanTokens, MaxTokens) \cup ExampleTexts}
        \cup NumberCells \cup {Missing}

Stages == {"decode", "tags", "urls", "email", "space"}

-----------------------------------------------------------------------------
(* SpecClean: one call of clean_text_comprehensive, statement by statement, *)
(* and direct calls of the five transforms on a cell value.                *)

\* the script's variables while a function is checked on its own
AppIdle ==
    /\ file = None /\ encoding_option = "utf-8" /\ delimiter_option = "," /\ reads = <<>>
    /\ report = {} /\ df = None /\ df0 = None /\ columns_to_clean = <<>>
    /\ add_suffix = "_cleaned" /\ create_backup = TRUE /\ loop_i = 0 /\ progress = <<>>
    /\ all_stats = <<>> /\ cleaned_df = None

InitClean ==
    /\ pc = "call"
    /\ text \in CleanValues
    /\ options \in AllOptions
    /\ cleaned_text = ""
    /\ ran = <<>>
    /\ original_series = <<>>
    /\ cleaned_series = <<>>
    /\ stats = None
    /\ AppIdle

\* if pd.isna(text) or text == "": return "" ; cleaned_text = str(text)
Enter ==
    /\ pc = "call"
    /\ IF IsBlank(text)
       THEN cleaned_text' = "" /\ pc' = "return"
       ELSE cleaned_text' = Str(text) /\ pc' = "decode"
    /\ UNCHANGED <<options, text, ran, columnVars, appVars>>

\* if options.get(flag): cleaned_text = transform(cleaned_text)
RunStage(stage) ==
    /\ pc = stage
    /\ pc' = NextStage(stage)
    /\ IF options[StageFlag(stage)]
       THEN LET out == StageCall(stage, cleaned_text, options)
            IN  /\ cleaned_text' = out
                /\ ran' = Append(ran, [stage |-> stage, input |-> Text(cleaned_text),
                                       output |-> out])
       ELSE UNCHANGED <<cleaned_text, ran>>
    /\ UNCHANGED <<options, text, columnVars, appVars>>

DecodeStage == RunStage("decode")
TagsStage == RunStage("tags")
UrlsStage == RunStage("urls")
EmailStage == RunStage("email")
SpaceStage == RunStage("space")

\* a transform called on the cell value itself
DirectCall ==
    /\ pc = "call"
    /\ \E stage \in Stages :
          ran' = <<[stage |-> stage, input |-> text,
                    output |-> Transform(stage, text, options["preserve_formatting"])]>>
    /\ pc' = "direct"
    /\ UNCHANGED <<options, text, cleaned_text, columnVars, appVars>>

NextClean ==
    \/ Enter
    \/ DecodeStage
    \/ TagsStage
    \/ UrlsStage
    \/ EmailStage
    \/ SpaceStage
    \/ DirectCall

SpecClean == InitClean /\ [][NextClean]_vars

-----------------------------------------------------------------------------
(* SpecStrip: remove_html_tags called on a text, with either value of      *)
(* preserve_formatting.                                                    *)

MaxStripTokens == 3

StripTokens == {"<b>", "</b>", "<I>", "</i>", "<p>", "x", "<", ">"}

StripExamples == {"<p>Hello <b>World</b></p>", "<strong>a</strong>", "<em>a</em>",
                  "<STRONG>a\nb</strong>", "<a <b>x</b>>"}

StripValues == {Text(s) : s \in TextsOf(StripTokens, MaxStripTokens) \cup StripExamples}

\* the options that differ in preserve_formatting only (the sidebar's defaults otherwise)
StripOptions ==
    {o \in AllOptions : /\ o["decode_html"] /\ o["remove_tags"] /\ o["normalize_whitespace"]
                        /\ ~o["remove_urls"] /\ ~o["remove_email"]}

InitStrip ==
    /\ pc = "call"
    /\ text \in StripValues
    /\ options \in StripOptions
    /\ cleaned_text = ""
    /\ ran = <<>>
    /\ original_series = <<>>
    /\ cleaned_series = <<>>
    /\ stats = None
    /\ AppIdle

StripCall ==
    /\ pc = "call"
    /\ ran' = <<[stage |-> "tags", input |-> text,
                 output |-> remove_html_tags(text, options["preserve_formatting"])]>>
    /\ pc' = "direct"
    /\ UNCHANGED <<options, text, cleaned_text, columnVars, appVars>>

NextStrip == StripCall

SpecStrip == InitStrip /\ [][NextStrip]_vars

-----------------------------------------------------------------------------
(* Properties of the cleaning pipeline.                                    *)

ClaimOrder == <<"decode", "tags", "urls", "email", "space">>
ClaimFlag == [decode |-> "decode_html", tags |-> "remove_tags", urls |-> "remove_urls",
              email |-> "remove_email", space |-> "normalize_whitespace"]
FlaggedStages == SelectSeq(ClaimOrder, LAMBDA st : options[ClaimFlag[st]])
RanStages == [k \in DOMAIN ran |-> ran[k].stage]
IsPrefix(a, b) == Len(a) <= Len(b) /\ a = SubSeq(b, 1, Len(a))
InPipeline == pc \in Stages \cup {"return"}
TextIsBlank == text.kind = "missing" \/ (text.kind = "text" /\ text.s = "")

\* the stages that have run are the flagged stages, in the fixed order, each once,
\* and each received the output of the one before it (the first: the coerced value)
StagesChained ==
    /\ IsPrefix(RanStages, FlaggedStages)
    /\ pc = "return" => RanStages = FlaggedStages
    /\ \A k \in DOMAIN ran :
          ran[k].input = Text(IF k = 1 THEN Str(text) ELSE ran[k - 1].output)
    /\ cleaned_text = IF ran = <<>> THEN Str(text) ELSE ran[Len(ran)].output

\* C3 as stated: for every value and every config, a stage runs if and only if its
\* flag is true, in the order decode, tags, URLs, emails, whitespace, each stage on
\* the previous stage's output.
C3_EveryValue == InPipeline => StagesChained

\* C3: for every value that is neither missing nor the empty string, and every config,
\* the stages that run are exactly the flagged ones, in the order decode, tags, URLs,
\* emails, whitespace, each once and each on the previous stage's output; for a
\* missing or empty value no stage runs and the result is the empty string.
C3_StageOrder ==
    InPipeline =>
        IF TextIsBlank THEN ran = <<>> /\ cleaned_text = "" ELSE StagesChained

\* all five stages ran and the second one received a text the first one had changed
C3_Witness ==
    /\ pc = "return"
    /\ Len(ran) = 5
    /\ ran[2].input # Text(Str(text))
    /\ ran[5].output # ran[5].input.s

\* C4: clean returns a text for every cell value and config; a missing or empty
\* input gives the empty string from clean and from each transform called on it;
\* a number is coerced to its text representation before the stages run.
C4_NeverRaises ==
    /\ pc = "return" => cleaned_text \in STRING /\ (TextIsBlank => cleaned_text = "")
    /\ pc = "direct" => /\ ran[1].output \in STRING
                        /\ TextIsBlank => ran[1].output = ""
    /\ pc = "decode" =>
          /\ cleaned_text \in STRING
          /\ text = IntCell(7) => cleaned_text = "7"
          /\ text = IntCell(10) => cleaned_text = "10"
          /\ text = FloatCell(3) => cleaned_text = "3.0"
          /\ text.kind = "text" => cleaned_text = text.s

\* a missing value went through clean, and a transform was called on a missing value
C4_Witness ==
    \/ pc = "return" /\ text = Missing /\ options["decode_html"] /\ cleaned_text = ""
    \/ pc = "direct" /\ text = Missing /\ ran[1].stage = "space" /\ ran[1].output = ""

-----------------------------------------------------------------------------
(* Properties of the tag stripper.                                         *)

CountCh(s, c) == Cardinality({i \in 1 .. Len(s) : Ch(s, i) = c})
NoTagIn(s) == \A i \in 1 .. Len(s) : \A j \in i + 1 .. Len(s) : ~(Ch(s, i) = "<" /\ Ch(s, j) = ">")

\* s is pre <open> inner <close> post with no other angle bracket: then the result of
\* strip with preserve_formatting is pre mark inner mark post
PairKept(s, out, open, close, mark) ==
    \A i \in 1 .. Len(s) : \A j \in i + 1 .. Len(s) :
        (/\ AtNoCase(s, i, open)
         /\ AtNoCase(s, j, close)
         /\ CountCh(s, "<") = 2 /\ CountCh(s, ">") = 2)
        => out = SubSeq(s, 1, i - 1) \o mark \o SubSeq(s, i + Len(open), j - 1)
                    \o mark \o SubSeq(s, j + Len(close), Len(s))

StripCalled == pc = "direct" /\ ran[1].stage = "tags"

-----------------------------------------------------------------------------
(* SpecColumn: one column through the body of the cleaning loop: the copy, *)
(* the apply, the statistics.                                              *)

MaxSeriesLen == 2

SeriesCells == {Missing, Text(""), Text("a &amp; b"), Text("<p>x</p>"), Text("x"), FloatCell(1)}

RECURSIVE SeriesOf(_, _)
SeriesOf(cells, n) ==
    IF n = 1 THEN {<<c>> : c \in cells}
    ELSE LET shorter == SeriesOf(cells, n - 1)
         IN  shorter \cup {Append(a, c) : a \in shorter, c \in cells}

\* the column and the configuration of the specification's end-to-end example
ExampleBody == <<Text("&amp;Hi &lt;b&gt;there&lt;/b&gt;"), Text("no markup"), Text("")>>
ExampleOptions ==
    [k \in OptionKeys |-> k \in {"decode_html", "remove_tags", "normalize_whitespace"}]

\* the widgets' defaults (only decode and normalize on), the example's, everything on
DefaultOptions == [k \in OptionKeys |-> k \in {"decode_html", "normalize_whitespace"}]
EveryOption == [k \in OptionKeys |-> TRUE]
ColumnOptions == {DefaultOptions, ExampleOptions, EveryOption}

InitColumn ==
    /\ pc = "copy"
    /\ original_series \in SeriesOf(SeriesCells, MaxSeriesLen) \cup {ExampleBody}
    /\ options \in ColumnOptions
    /\ cleaned_series = <<>>
    /\ stats = None
    /\ text = None
    /\ cleaned_text = ""
    /\ ran = <<>>
    /\ AppIdle

\* cleaned_series = original_series.apply(...)
ApplyClean ==
    /\ pc = "copy"
    /\ cleaned_series' = Apply(original_series, options)
    /\ pc' = "applied"
    /\ UNCHANGED <<options, cleanVars, original_series, stats, appVars>>

\* column_stats = get_cleaning_stats(original_series, cleaned_series)
ComputeStats ==
    /\ pc = "applied"
    /\ stats' = get_cleaning_stats(original_series, cleaned_series)
    /\ pc' = "stats"
    /\ UNCHANGED <<options, cleanVars, original_series, cleaned_series, appVars>>

NextColumn ==
    \/ ApplyClean
    \/ ComputeStats

SpecColumn == InitColumn /\ [][NextColumn]_vars

-----------------------------------------------------------------------------
(* Properties of the statistics.                                           *)

ExampleRun == pc = "stats" /\ original_series = ExampleBody /\ options = ExampleOptions

\* C5 as stated: the example column cleans to "Hi there", "no markup", "" with
\* empty_original = 1, empty_cleaned = 1, html_entities_found = 1, html_tags_found = 1.
C5_AsStated ==
    ExampleRun =>
        /\ cleaned_series = <<Text("Hi there"), Text("no markup"), Text("")>>
        /\ stats.empty_original = 1
        /\ stats.empty_cleaned = 1
        /\ stats.html_entities_found = 1
        /\ stats.html_tags_found = 1

\* C5: the example column cleans to "&Hi there", "no markup", "" (the decoded &amp;
\* stays as an ampersand) with empty_original = 1, empty_cleaned = 1,
\* html_entities_found = 1 and html_tags_found = 0 (the original holds its tags
\* entity-encoded, and the tag count scans the original).
C5_EndToEnd ==
    ExampleRun =>
        /\ cleaned_series = <<Text("&Hi there"), Text("no markup"), Text("")>>
        /\ stats.total_rows = 3
        /\ stats.empty_original = 1
        /\ stats.empty_cleaned = 1
        /\ stats.html_entities_found = 1
        /\ stats.html_tags_found = 0

C5_Witness == ExampleRun /\ stats.total_rows = 3 /\ Len(cleaned_series) = 3

\* fillna(""): every missing cell replaced by the empty string
FillNa(series) == [k \in DOMAIN series |-> IF series[k].kind = "missing" THEN Text("") ELSE series[k]]

\* C8: replacing every missing cell by the empty string changes no field of the
\* statistics of (original, cleaned).
C8_MissingIsEmpty ==
    pc = "stats" => stats = get_cleaning_stats(FillNa(original_series), FillNa(cleaned_series))

-----------------------------------------------------------------------------
(* The table: a sequence of named columns, each a sequence of cells.       *)

\* a DataFrame value (None is the other value the script's df can have)
DataFrame(columns) == [kind |-> "table", columns |-> columns]
Column(name, cells) == [name |-> name, cells |-> cells]
Names(table) == [k \in DOMAIN table |-> table[k].name]
NameSet(table) == {table[k].name : k \in DOMAIN table}
HasColumn(table, name) == name \in NameSet(table)
\* df[name]
Get(table, name) == (CHOOSE k \in DOMAIN table : table[k].name = name)
GetCells(table, name) == table[Get(table, name)].cells
\* len(df)
Rows(table) == IF table = <<>> THEN 0 ELSE Len(table[1].cells)

\* df[name] = series: an existing column is overwritten in place, a new one appended
SetColumn(table, name, cells) ==
    IF HasColumn(table, name)
    THEN [k \in DOMAIN table |-> IF table[k].name = name THEN Column(name, cells) ELSE table[k]]
    ELSE Append(table, Column(name, cells))

\* df[[names]]
SelectColumns(table, names) == [k \in DOMAIN names |-> table[Get(table, names[k])]]

\* str.endswith
EndsWith(s, suffix) ==
    \/ suffix = ""
    \/ Len(suffix) <= Len(s) /\ SubSeq(s, Len(s) - Len(suffix) + 1, Len(s)) = suffix

\* f"{column}{add_suffix}"
NewColumnName(column, suffix) == column \o suffix

-----------------------------------------------------------------------------
(* load_csv_file                                                           *)

Encodings == {"utf-8", "latin-1", "cp1252"}
Delimiters == {",", ";", "\t", "|"}

\* what one pd.read_csv call can end in: the bytes may not decode under the encoding,
\* the text may not parse under the delimiter; with both wrong either error can come
\* first
ReadCsv(f, encoding, delimiter) ==
    LET undecodable == encoding \notin f.decodable
        malformed == delimiter \in f.malformed
    IN  IF undecodable /\ malformed THEN {"UnicodeDecodeError", "ParserError"}
        ELSE IF undecodable THEN {"UnicodeDecodeError"}
        ELSE IF malformed THEN {"ParserError"}
        ELSE {"ok"}

\* the retry without the delimiter argument (read_csv's default, the comma)
RetryDefaultDelimiter(encoding, delimiter) == [encoding |-> "latin-1", delimiter |-> ","]

\* the arguments of the read_csv call in the UnicodeDecodeError handler
Retry(encoding, delimiter) == [encoding |-> "latin-1", delimiter |-> delimiter]

Read(encoding, delimiter, outcome) ==
    [encoding |-> encoding, delimiter |-> delimiter, outcome |-> outcome]

-----------------------------------------------------------------------------
(* Spec: the script, from the upload to the export.                        *)

MaxRows == 2

\* the header rows of the uploaded files
Headers == {<<"a">>, <<"a", "b">>, <<"a", "a_c">>, <<"a", "b_c">>, <<"a", "b", "a_c">>}
\* the cells of their text columns; a missing cell is what read_csv makes of an empty field
TableCells == {Text("&amp;lt;"), Missing}
Suffixes == {"", "_c", "_x"}

ColumnsOfRows(n) == [1 .. n -> TableCells]
TablesOf(header) ==
    UNION {[DOMAIN header -> ColumnsOfRows(n)] : n \in 1 .. MaxRows}
Table(header, fill) == [k \in DOMAIN header |-> Column(header[k], fill[k])]
Tables == UNION {{Table(h, fill) : fill \in TablesOf(h)} : h \in Headers}

\* a file every encoding decodes and every delimiter parses
PlainFile(table) == [decodable |-> Encodings, malformed |-> {}, table |-> table]

\* the files of the load cases: latin-1 decodes any bytes; a file may parse under no
\* delimiter (no data), under all but the comma, or under all; its table may have no row
LoadFiles ==
    [decodable : {e \in SUBSET Encodings : "latin-1" \in e},
     malformed : {{}, {","}, Delimiters},
     table : {Table(<<"a", "b">>, <<<<Text("&amp;lt;")>>, <<Missing>>>>),
              Table(<<"a">>, <<<<>>>>)}]

\* the non-empty sequences of distinct elements of a set: what the multiselect returns
Selections(S) ==
    {q \in UNION {[1 .. n -> S] : n \in 1 .. Cardinality(S)} :
        \A j, k \in DOMAIN q : j # k => q[j] # q[k]}

\* the options of the cleaning runs: the widgets' defaults
RunOptions == {DefaultOptions}

FunctionIdle ==
    /\ text = None /\ cleaned_text = "" /\ ran = <<>>
    /\ original_series = <<>> /\ cleaned_series = <<>> /\ stats = None

Init ==
    /\ pc = "upload"
    /\ \/ /\ file \in {PlainFile(t) : t \in Tables}
          /\ encoding_option = "utf-8"
          /\ delimiter_option = ","
       \/ /\ file \in LoadFiles
          /\ encoding_option \in Encodings
          /\ delimiter_option \in Delimiters
    /\ options = DefaultOptions
    /\ reads = <<>>
    /\ report = {}
    /\ df = None
    /\ df0 = None
    /\ columns_to_clean = <<>>
    /\ add_suffix = "_cleaned"
    /\ create_backup = TRUE
    /\ loop_i = 0
    /\ progress = <<>>
    /\ all_stats = <<>>
    /\ cleaned_df = None
    /\ FunctionIdle

\* df = load_csv_file(file_content, encoding_option, delimiter_option)
LoadCsv ==
    /\ pc = "upload"
    /\ \E first \in ReadCsv(file, encoding_option, delimiter_option) :
          LET r1 == Read(encoding_option, delimiter_option, first)
              again == Retry(encoding_option, delimiter_option)
          IN  CASE first = "ok" ->
                     /\ reads' = <<r1>>
                     /\ df' = DataFrame(file.table)
                     /\ pc' = "loaded"
                     /\ UNCHANGED report
                [] first = "UnicodeDecodeError" ->
                     \* except UnicodeDecodeError: warn, read again; an error of the
                     \* second read leaves the function and ends the script
                     \E second \in ReadCsv(file, again.encoding, again.delimiter) :
                        /\ reads' = <<r1, Read(again.encoding, again.delimiter, second)>>
                        /\ IF second = "ok"
                           THEN /\ df' = DataFrame(file.table)
                                /\ pc' = "loaded"
                                /\ report' = report \cup {"warning"}
                           ELSE /\ df' = None
                                /\ pc' = "crashed"
                                /\ report' = report \cup {"warning", "exception"}
                [] OTHER ->
                     \* except Exception: st.error, return None
                     /\ reads' = <<r1>>
                     /\ df' = None
                     /\ pc' = "no_table"
                     /\ report' = report \cup {"error"}
    /\ UNCHANGED <<options, cleanVars, columnVars, file, encoding_option, delimiter_option,
                   runVars>>

\* if df is not None: the metrics, st.success, the column information (df[col].iloc[0]
\* raises IndexError on a table without rows)
ShowFileInfo ==
    /\ pc = "loaded"
    /\ df # None
    /\ IF Rows(df.columns) = 0
       THEN pc' = "crashed" /\ report' = report \cup {"success", "exception"}
       ELSE pc' = "select" /\ report' = report \cup {"success"}
    /\ UNCHANGED <<options, cleanVars, columnVars, loadVars, df, runVars>>

\* the widgets' values, the button, the options dict, progress_bar = st.progress(0)
StartCleaning ==
    /\ pc = "select"
    /\ columns_to_clean' \in Selections(NameSet(df.columns))
    /\ options' \in RunOptions
    /\ create_backup' \in BOOLEAN
    /\ add_suffix' \in Suffixes
    /\ progress' = <<Frac(0, 1)>>
    /\ all_stats' = <<>>
    /\ loop_i' = 0
    /\ df0' = df
    /\ pc' = "clean"
    /\ UNCHANGED <<cleanVars, columnVars, loadVars, report, df, cleaned_df>>

column == columns_to_clean[loop_i + 1]

\* the loop body reporting the column's progress before cleaning it
CleanColumnEarly ==
    /\ pc = "clean"
    /\ original_series' = GetCells(df.columns, column)
    /\ cleaned_series' = Apply(GetCells(df.columns, column), options)
    /\ progress' = Append(progress, Frac(loop_i + 1, Len(columns_to_clean)))
    /\ pc' = "assign"
    /\ UNCHANGED <<options, cleanVars, stats, loadVars, report, df, df0, columns_to_clean,
                   add_suffix, create_backup, loop_i, all_stats, cleaned_df>>

\* original_series = df[column].copy(); cleaned_series = original_series.apply(...)
CleanColumn ==
    /\ pc = "clean"
    /\ original_series' = GetCells(df.columns, column)
    /\ cleaned_series' = Apply(GetCells(df.columns, column), options)
    /\ pc' = "assign"
    /\ UNCHANGED <<options, cleanVars, stats, appVars>>

\* df[new_column_name] = cleaned_series
AssignColumn ==
    /\ pc = "assign"
    /\ df' = DataFrame(SetColumn(df.columns, NewColumnName(column, add_suffix), cleaned_series))
    /\ pc' = "stats"
    /\ UNCHANGED <<options, cleanVars, columnVars, loadVars, report, runVars>>

\* column_stats = get_cleaning_stats(...); all_stats[column] = column_stats
ColumnStats ==
    /\ pc = "stats"
    /\ stats' = get_cleaning_stats(original_series, cleaned_series)
    /\ all_stats' = Append(all_stats, <<column, stats'>>)
    /\ pc' = "progress"
    /\ UNCHANGED <<options, cleanVars, original_series, cleaned_series, loadVars, report, df,
                   df0, columns_to_clean, add_suffix, create_backup, loop_i, progress,
                   cleaned_df>>

\* (i + 1) / len(columns_to_clean)
ProgressValue(k, n) == Frac(k + 1, n)

\* progress_bar.progress((i + 1) / len(columns_to_clean)); the next iteration
UpdateProgress ==
    /\ pc = "progress"
    /\ progress' = Append(progress, ProgressValue(loop_i, Len(columns_to_clean)))
    /\ loop_i' = loop_i + 1
    /\ pc' = IF loop_i + 1 < Len(columns_to_clean) THEN "clean" ELSE "finish"
    /\ UNCHANGED <<options, cleanVars, columnVars, loadVars, report, df, df0,
                   columns_to_clean, add_suffix, create_backup, all_stats, cleaned_df>>

\* status_text.text("Cleaning completed!"); progress_bar.progress(1.0)
Finish ==
    /\ pc = "finish"
    /\ progress' = Append(progress, Frac(1, 1))
    /\ pc' = "export"
    /\ UNCHANGED <<options, cleanVars, columnVars, loadVars, report, df, df0,
                   columns_to_clean, add_suffix, create_backup, loop_i, all_stats,
                   cleaned_df>>

\* the columns of the Download Cleaned Data Only table
CleanedOnlyColumns(table, selected, suffix) ==
    LET cleaned_only_columns == [k \in DOMAIN selected |-> NewColumnName(selected[k], suffix)]
        selected_set == {selected[k] : k \in DOMAIN selected}
        other_columns ==
            SelectSeq(Names(table), LAMBDA col : col \notin selected_set /\ ~EndsWith(col, suffix))
    IN  other_columns \o cleaned_only_columns

\* the statistics, the preview and the two download buttons
Export ==
    /\ pc = "export"
    /\ cleaned_df' = IF ~create_backup
                     THEN DataFrame(SelectColumns(df.columns, CleanedOnlyColumns(df.columns, columns_to_clean, add_suffix)))
                     ELSE df
    /\ report' = report \cup {"completed"}
    /\ pc' = "done"
    /\ UNCHANGED <<options, cleanVars, columnVars, loadVars, df, df0, columns_to_clean,
                   add_suffix, create_backup, loop_i, progress, all_stats>>

\* a statement of the loop body raises (nothing in the script catches it): the script
\* run ends there and the exception is shown
Raise ==
    /\ pc \in {"clean", "assign", "stats"}
    /\ pc' = "failed"
    /\ report' = report \cup {"exception"}
    /\ UNCHANGED <<options, cleanVars, columnVars, loadVars, df, runVars>>

Next ==
    \/ LoadCsv
    \/ ShowFileInfo
    \/ StartCleaning
    \/ CleanColumn
    \/ AssignColumn
    \/ ColumnStats
    \/ UpdateProgress
    \/ Finish
    \/ Export
    \/ Raise

Spec == Init /\ [][Next]_vars


-----------------------------------------------------------------------------
(* Properties of the script.                                               *)

InRun == pc \in {"clean", "assign", "stats", "progress", "finish", "export", "done", "failed"}
LoopDone == pc \in {"finish", "export", "done"}
Succeeded == pc \in {"export", "done"}

\* C1: every column the table had when the run started still has its name and its
\* cell values, row by row, during and after the run.
C1_OriginalColumnsKept ==
    InRun =>
        \A k \in DOMAIN df0.columns :
            /\ HasColumn(df.columns, df0.columns[k].name)
            /\ GetCells(df.columns, df0.columns[k].name) = df0.columns[k].cells

\* C2: after the loop the table has, for every selected column c, a column c + suffix
\* of the table's row count whose i-th cell is clean(v_i, config), v_i the i-th cell of
\* c when the run started; and every column has the row count as its length.
C2_CleanedColumns ==
    LoopDone =>
        /\ \A j \in DOMAIN columns_to_clean :
              LET c == columns_to_clean[j]
                  new == c \o add_suffix
              IN  /\ HasColumn(df.columns, new)
                  /\ Len(GetCells(df.columns, new)) = Rows(df0.columns)
                  /\ \A r \in 1 .. Rows(df0.columns) :
                        GetCells(df.columns, new)[r] =
                            Text(clean_text_comprehensive(GetCells(df0.columns, c)[r], options))
        /\ \A k \in DOMAIN df.columns : Len(df.columns[k].cells) = Rows(df0.columns)

LeQ(a, b) == a[1] * b[2] <= b[1] * a[2]
Selected == {columns_to_clean[k] : k \in DOMAIN columns_to_clean}

\* C6: the reported fractions lie in [0,1] and never decrease; there is one update per
\* completed column (after k columns the fraction is k/n); a run that succeeds has
\* reported 1; a run in which a step raised has not.
C6_Progress ==
    InRun =>
        LET n == Len(columns_to_clean)
        IN  /\ \A k \in DOMAIN progress : LeQ(<<0, 1>>, progress[k]) /\ LeQ(progress[k], <<1, 1>>)
            /\ \A k \in 1 .. Len(progress) - 1 : LeQ(progress[k], progress[k + 1])
            /\ Len(progress) = 1 + loop_i + (IF Succeeded THEN 1 ELSE 0)
            /\ \A k \in 1 .. loop_i : progress[k + 1][1] * n = k * progress[k + 1][2]
            /\ Succeeded => progress[Len(progress)] = <<1, 1>>
            /\ pc = "failed" => \A k \in DOMAIN progress : progress[k] # <<1, 1>>

\* a step of the last of several columns raised, after the other columns were reported
C6_Witness ==
    /\ pc = "failed"
    /\ Len(columns_to_clean) >= 2
    /\ loop_i = Len(columns_to_clean) - 1
    /\ Len(progress) = Len(columns_to_clean)

LoadFailed == reads # <<>> /\ reads[Len(reads)].outcome # "ok"

\* C7: the first read uses the chosen encoding and delimiter; a second read is made
\* exactly when the first could not decode, with latin-1 and the same delimiter, and
\* there is no third; a load whose last read failed has reported an error, has no
\* table, and the script goes to no later step.
C7_Load ==
    /\ Len(reads) <= 2
    /\ reads # <<>> =>
          /\ reads[1].encoding = encoding_option
          /\ reads[1].delimiter = delimiter_option
          /\ Len(reads) = 2 <=> reads[1].outcome = "UnicodeDecodeError"
    /\ Len(reads) = 2 =>
          /\ reads[2].encoding = "latin-1"
          /\ reads[2].delimiter = delimiter_option
    /\ LoadFailed =>
          /\ pc \in {"no_table", "crashed"}
          /\ df = None
          /\ report \cap {"error", "exception"} # {}
          /\ "success" \notin report
          /\ columns_to_clean = <<>> /\ progress = <<>> /\ all_stats = <<>>
          /\ cleaned_df = None

\* the retry was made with another delimiter than the comma, and failed
C7_Witness ==
    /\ Len(reads) = 2
    /\ reads[2].outcome = "ParserError"
    /\ reads[2].delimiter = ";"
    /\ pc = "crashed"

\* C10: with Keep Original Columns off the cleaned-only export is the unselected columns
\* of the loaded table, as loaded, followed by one cleaned column c + suffix per selected
\* column c; with it on, the export is the whole table.
C10_Export ==
    pc = "done" =>
        IF create_backup THEN cleaned_df = df
        ELSE LET kept == SelectSeq(df0.columns, LAMBDA col : col.name \notin Selected)
                 cleaned == [k \in DOMAIN columns_to_clean |->
                                Column(columns_to_clean[k] \o add_suffix,
                                       GetCells(df.columns, columns_to_clean[k] \o add_suffix))]
             IN  cleaned_df = DataFrame(kept \o cleaned)

====
